---- MODULE Spec2Model ----
(***************************************************************************)
(* Model of the tmux command-execution controller of hackingBuddyGPT:      *)
(*   LocalShellConnection   src/src/hackingBuddyGPT/utils/local_shell/     *)
(*                          local_shell.py  (variant "Local")              *)
(*   TmuxShellController    src/base.py     (variant "Tmux")               *)
(*                                                                         *)
(* Text.  A string is a sequence of lines, a line is a sequence of tokens.  *)
(* A token is a character the code looks at ("$", "#", ">", ":", "@", "~",  *)
(* " ") or a word whose letters the code never inspects.  A marker is the   *)
(* two tokens <<prefix, hex suffix>>.  `x in line` of the source is         *)
(* Contains (contiguous sub-sequence).                                      *)
(*                                                                         *)
(* Time is counted in tenths of a second.  time.sleep(s) advances the       *)
(* shell by 10*s units; subprocess calls take no time.                      *)
(*                                                                         *)
(* uuid.uuid4().hex[:8] is modelled as a fresh suffix on every call; a      *)
(* collision of two random suffixes is not modelled.  hash(text) is         *)
(* modelled as injective.                                                   *)
(***************************************************************************)
EXTENDS Integers, Sequences, FiniteSets, TLC

\* ------------------------------------------------------------------ bounds
MaxRuns == 1
MaxFaults == 1
MaxLines == 3
MaxCapture == 4

\* ------------------------------------------------------- program constants
CHECK_INTERVAL == 5
MIN_STABLE_TIME == 15
DELAY_START == 5
DELAY_END == 8
DELAY_CLEAR == 3
DELAY_FB_END == 5
HISTORY_WIDE == 50000
HISTORY_RESET == 10000
RECENT_LINES == 50
SHORT_LINE == 100

\* --------------------------------------------------------------- text
IsWs(t) == t = " "

IsBlank(line) == \A i \in 1..Len(line) : IsWs(line[i])

RECURSIVE LStrip(_)
LStrip(line) ==
  IF line # <<>> /\ IsWs(Head(line)) THEN LStrip(Tail(line)) ELSE line

RECURSIVE RStrip(_)
RStrip(line) ==
  IF line # <<>> /\ IsWs(line[Len(line)])
  THEN RStrip(SubSeq(line, 1, Len(line) - 1)) ELSE line

\* str.strip() on one line
Strip(line) == RStrip(LStrip(line))

\* `sub in line`
Contains(line, sub) ==
  \E i \in 1..(Len(line) - Len(sub) + 1) :
     SubSeq(line, i, i + Len(sub) - 1) = sub

HasTok(line, t) == \E i \in 1..Len(line) : line[i] = t

\* index of the first occurrence of token t in line, 0 when absent
FirstTok(line, t) ==
  IF HasTok(line, t)
  THEN CHOOSE i \in 1..Len(line) :
         line[i] = t /\ \A j \in 1..(i - 1) : line[j] # t
  ELSE 0

RECURSIVE DropLeadingBlank(_)
DropLeadingBlank(lines) ==
  IF lines # <<>> /\ IsBlank(Head(lines))
  THEN DropLeadingBlank(Tail(lines)) ELSE lines

RECURSIVE DropTrailingBlank(_)
DropTrailingBlank(lines) ==
  IF lines # <<>> /\ IsBlank(lines[Len(lines)])
  THEN DropTrailingBlank(SubSeq(lines, 1, Len(lines) - 1)) ELSE lines

\* '\n'.join(lines).strip(), and output.strip().split('\n'): leading and
\* trailing whitespace of the whole text goes, blank lines included; the
\* empty string is <<>>.
StripText(lines) ==
  LET a == DropTrailingBlank(DropLeadingBlank(lines))
  IN IF a = <<>> THEN <<>>
     ELSE IF Len(a) = 1 THEN <<Strip(a[1])>>
     ELSE <<LStrip(a[1])>> \o SubSeq(a, 2, Len(a) - 1) \o <<RStrip(a[Len(a)])>>

\* characters of a token, for len(last_line)
TokLen(t) == IF t = "LONG100" THEN 100 ELSE IF t = "W97" THEN 97 ELSE 1

RECURSIVE LineLen(_)
LineLen(line) ==
  IF line = <<>> THEN 0 ELSE TokLen(Head(line)) + LineLen(Tail(line))

\* ------------------------------------------------------------ markers
\* mutant: one suffix kept for every marker
Hex_reused(n) == "0"

\* uuid.uuid4().hex[:8] of the n-th call
Hex(n) == ToString(n)

StartMarker(n) == <<"CMDSTART", Hex(n)>>
EndMarker(n) == <<"CMDEND", Hex(n)>>
ClearMarker(n) == <<"__CLEAR_", Hex(n), "__">>
FbEndMarker(n) == <<"__END_", Hex(n), "__">>

\* f"echo '{marker}'" and f'echo "{marker}"'
EchoSq(m) == <<"echo", " ", "'">> \o m \o <<"'">>
EchoDq(m) == <<"echo", " ", "\"">> \o m \o <<"\"">>

\* ------------------------------------------------ the shell in the pane
\* The commands a caller runs, and what the shell does with them.
CmdEcho == <<"echo", " ", "hello">>
CmdSleep == <<"sleep", " ", "2", " ", "&&", " ", "echo", " ", "done">>
CmdCat == <<"cat", " ", "f">>
CmdClear == <<"clear">>
CmdBlank == <<" ">>
CmdEmpty == <<>>

Commands == {CmdEcho, CmdSleep, CmdCat, CmdClear, CmdBlank, CmdEmpty}

\* shell prompts: `user@host:~$ ` and the bare `% ` of zsh
PromptDollar == <<"user", "@", "host", ":", "~", "$", " ">>
PromptPercent == <<"%", " ">>
Prompts == {PromptDollar, PromptPercent}

IsQuotedEcho(text) ==
  /\ Len(text) >= 5
  /\ text[1] = "echo" /\ text[2] = " "
  /\ text[3] \in {"'", "\""} /\ text[Len(text)] = text[3]

\* how long the typed line runs before it prints (tenths of a second)
Dur(text) == IF text = CmdSleep THEN 20 ELSE 0

\* the lines the typed line prints when it ends
Out(text) ==
  IF IsQuotedEcho(text) THEN <<SubSeq(text, 4, Len(text) - 1)>>
  ELSE IF text = CmdEcho THEN <<<<"hello">>>>
  ELSE IF text = CmdSleep THEN <<<<"done">>>>
  ELSE IF text = CmdCat
       THEN << <<>>, <<" ", "total", ":", " ", "$", "5">>, <<"cat", " ", "f">>,
               <<"end">>, <<" ">> >>
  ELSE <<>>

\* the pane after the running line has ended and printed: its output, then
\* a new prompt; `clear` wipes the pane
Printed(pn, text, pr) ==
  IF text = CmdClear THEN <<pr>>
  ELSE SubSeq(pn, 1, Len(pn) - 1) \o Out(text) \o <<pr>>

\* A terminal is [pane, busy, rem, cur, queue, sigint]: the lines of the pane
\* (the last one holds the cursor), whether a line is running, the time it
\* still runs, its text, the lines typed ahead while it runs, and the
\* interrupt keystrokes the pane has received.
RECURSIVE Drain(_, _)
Drain(t, pr) ==
  \* the shell is idle at a prompt and reads the lines typed ahead
  IF t.queue = <<>> THEN t
  ELSE LET text == Head(t.queue)
           typed == SubSeq(t.pane, 1, Len(t.pane) - 1)
                      \o <<t.pane[Len(t.pane)] \o text>> \o << <<>> >>
       IN IF Dur(text) = 0
          THEN Drain([t EXCEPT !.pane = Printed(typed, text, pr),
                               !.queue = Tail(t.queue)], pr)
          ELSE [t EXCEPT !.pane = typed, !.busy = TRUE, !.rem = Dur(text),
                         !.cur = text, !.queue = Tail(t.queue)]

RECURSIVE Advance(_, _, _)
Advance(t, n, pr) ==
  \* n tenths of a second pass
  IF ~t.busy THEN t
  ELSE IF t.rem > n THEN [t EXCEPT !.rem = t.rem - n]
  ELSE Advance(Drain([t EXCEPT !.pane = Printed(t.pane, t.cur, pr),
                               !.busy = FALSE, !.rem = 0, !.cur = <<>>], pr),
               n - t.rem, pr)

\* `text` Enter arrives at the pane: the idle shell runs it, the terminal
\* echoes it raw and queues it while another line runs
Typed(t, text, pr) ==
  IF t.busy
  THEN [t EXCEPT !.pane = SubSeq(t.pane, 1, Len(t.pane) - 1)
                            \o <<t.pane[Len(t.pane)] \o text>> \o << <<>> >>,
                 !.queue = Append(t.queue, text)]
  ELSE Drain([t EXCEPT !.queue = <<text>>], pr)

\* C-c arrives at the pane: the terminal echoes ^C, the running line is
\* killed without printing, the lines typed ahead are flushed, and the
\* shell prints a new prompt
Interrupted(t, pr) ==
  [t EXCEPT !.pane = SubSeq(t.pane, 1, Len(t.pane) - 1)
                       \o <<t.pane[Len(t.pane)] \o <<"^C">> >> \o <<pr>>,
            !.busy = FALSE, !.rem = 0, !.cur = <<>>, !.queue = <<>>,
            !.sigint = @ + 1]

\* tmux display-message '#{cursor_x},#{cursor_y}'
CursorOf(t) == <<LineLen(t.pane[Len(t.pane)]), Len(t.pane)>>

\* ------------------------------------------------- pure parts of the code
POLL_LINES == 1000
FINAL_LINES == 50000

\* tmux capture-pane -p -S -n: the last n lines of the pane
LastLines(lines, n) ==
  IF Len(lines) <= n THEN lines
  ELSE SubSeq(lines, Len(lines) - n + 1, Len(lines))

\* hash(current_output)
hash(text) == text

PromptChars == <<"$", "#", ">">>
Keywords == {"error", "warning", "failed", "success", "completed", "finished"}

\* the regular expressions of prompt_patterns, on the stripped last line
EndsIn(line, set) == line # <<>> /\ line[Len(line)] \in set

AtColonThenEnd(line, set) ==
  /\ EndsIn(line, set)
  /\ \E i, j \in 1..Len(line) : i < j /\ line[i] = "@" /\ line[j] = ":"

HostPathEnd(line, set) ==
  /\ EndsIn(line, set)
  /\ \A i \in 1..Len(line) : ~IsWs(line[i])
  /\ \E j \in 2..Len(line) : line[j] = ":"

prompt_patterns(line) ==
  \/ EndsIn(line, {"$", "#"})
  \/ EndsIn(line, {">"})
  \/ AtColonThenEnd(line, {"$", "#"})
  \/ AtColonThenEnd(line, {">"})
  \/ HostPathEnd(line, {"$", "#"})
  \/ EndsIn(line, {"$"})
  \/ EndsIn(line, {"#"})

\* str.lower() on the words whose case the model distinguishes
Lower(t) ==
  IF t = "ERROR" THEN "error" ELSE IF t = "Failed" THEN "failed" ELSE t

\* `keyword in word`: the word is the keyword or has it inside
WordContains(t, k) == t = k \/ (t = "unfinished" /\ k = "finished")

\* any(keyword in last_line.lower() for keyword in [...])
has_keyword(line) ==
  \E i \in 1..Len(line) : \E k \in Keywords : WordContains(Lower(line[i]), k)

\* mutant: the keywords are looked for without lower()
has_prompt_at_end_cased(output) ==
  LET lines == StripText(output)
      last_line == Strip(lines[Len(lines)])
  IN IF lines = <<>> THEN FALSE
     ELSE \/ prompt_patterns(last_line)
          \/ /\ LineLen(last_line) < SHORT_LINE
             /\ \E c \in {"$", "#", ">", ":"} : HasTok(last_line, c)
             /\ ~\E k \in Keywords : HasTok(last_line, k)

has_prompt_at_end(output) ==
  LET lines == StripText(output)
      last_line == Strip(lines[Len(lines)])
  IN IF lines = <<>> THEN FALSE
     ELSE \/ prompt_patterns(last_line)
          \/ /\ LineLen(last_line) < SHORT_LINE
             /\ \E c \in {"$", "#", ">", ":"} : HasTok(last_line, c)
             /\ ~has_keyword(last_line)

\* mutant: only the verbatim comparison, no prompt character removed
is_command_echo_verbatim(line, command) == Strip(line) = command

is_command_echo(line, command) ==
  LET stripped == Strip(line)
      after_prompt(c) ==
        Strip(SubSeq(stripped, FirstTok(stripped, c) + 1, Len(stripped)))
  IN IF stripped = <<>> THEN FALSE
     ELSE \/ \E k \in 1..Len(PromptChars) :
               /\ HasTok(stripped, PromptChars[k])
               /\ after_prompt(PromptChars[k]) = command
          \/ stripped = command

\* mutant: the first line with the start marker is kept as start_idx
RECURSIVE find_markers_first(_, _, _, _, _)
find_markers_first(lines, i, start_idx, start_marker, end_marker) ==
  IF i > Len(lines) THEN <<start_idx, 0>>
  ELSE IF Contains(lines[i], start_marker) /\ start_idx = 0
       THEN find_markers_first(lines, i + 1, i, start_marker, end_marker)
  ELSE IF Contains(lines[i], end_marker) /\ start_idx # 0
          /\ ~Contains(lines[i], start_marker)
       THEN <<start_idx, i>>
  ELSE find_markers_first(lines, i + 1, start_idx, start_marker, end_marker)

\* the marker loop of _extract_between_markers and run_simple_fallback:
\* <<start_idx, end_idx>>, 0 for the source's -1
RECURSIVE find_markers(_, _, _, _, _)
find_markers(lines, i, start_idx, start_marker, end_marker) ==
  IF i > Len(lines) THEN <<start_idx, 0>>
  ELSE IF Contains(lines[i], start_marker)
       THEN find_markers(lines, i + 1, i, start_marker, end_marker)
  ELSE IF Contains(lines[i], end_marker) /\ start_idx # 0
       THEN <<start_idx, i>>
  ELSE find_markers(lines, i + 1, start_idx, start_marker, end_marker)

markers_found(output, start_marker, end_marker) ==
  LET idx == find_markers(output, 1, 0, start_marker, end_marker)
  IN idx[1] # 0 /\ idx[2] # 0

\* mutant: every line with a prompt character is dropped as well
RECURSIVE without_prompt_lines(_, _)
without_prompt_lines(lines, command) ==
  IF lines = <<>> THEN <<>>
  ELSE IF \/ is_command_echo(Head(lines), command)
          \/ \E k \in 1..Len(PromptChars) : HasTok(Head(lines), PromptChars[k])
       THEN without_prompt_lines(Tail(lines), command)
  ELSE <<Head(lines)>> \o without_prompt_lines(Tail(lines), command)

RECURSIVE without_echo(_, _)
without_echo(lines, command) ==
  IF lines = <<>> THEN <<>>
  ELSE IF is_command_echo(Head(lines), command)
       THEN without_echo(Tail(lines), command)
  ELSE <<Head(lines)>> \o without_echo(Tail(lines), command)

\* mutant: the slice begins at the start line
extract_with_start_line(output, start_marker, end_marker, original_command) ==
  LET idx == find_markers(output, 1, 0, start_marker, end_marker)
  IN StripText(without_echo(SubSeq(output, idx[1], idx[2] - 1),
                            original_command))

\* _extract_between_markers when both markers are found
extract_between_markers(output, start_marker, end_marker, original_command) ==
  LET idx == find_markers(output, 1, 0, start_marker, end_marker)
  IN StripText(without_echo(SubSeq(output, idx[1] + 1, idx[2] - 1),
                            original_command))

\* ['$', '#', '>', '└─'] ("|_" stands for the two box-drawing characters)
RecentPromptToks == {"$", "#", ">", "|_"}

has_prompt_tok(line) == \E c \in RecentPromptToks : HasTok(line, c)

\* lines[start_idx + 1:end_idx] of run_simple_fallback, LocalShellConnection
fallback_slice_Local(lines, start_idx, end_idx, command) ==
  LET result_lines == SubSeq(lines, start_idx + 1, end_idx - 1)
  IN IF result_lines # <<>> /\ Contains(result_lines[1], command)
     THEN StripText(Tail(result_lines))
     ELSE StripText(result_lines)

\* the loop over range(start_idx + 1, end_idx) of TmuxShellController
RECURSIVE fallback_loop_Tmux(_, _, _, _)
fallback_loop_Tmux(lines, command, command_found, result_lines) ==
  IF lines = <<>> THEN result_lines
  ELSE LET line == Head(lines)
       IN IF ~command_found /\ Contains(line, command) /\ has_prompt_tok(line)
          THEN fallback_loop_Tmux(Tail(lines), command, TRUE, result_lines)
          ELSE IF result_lines = <<>> /\ IsBlank(line)
          THEN fallback_loop_Tmux(Tail(lines), command, command_found,
                                  result_lines)
          ELSE fallback_loop_Tmux(Tail(lines), command, command_found,
                                  Append(result_lines, line))

fallback_slice_Tmux(lines, start_idx, end_idx, command) ==
  StripText(fallback_loop_Tmux(SubSeq(lines, start_idx + 1, end_idx - 1),
                               command, FALSE, <<>>))

\* the last index i with `command in line` and a prompt token, 0 when none
recent_index(lines, command) ==
  LET hits == {i \in 1..Len(lines) :
                 Contains(lines[i], command) /\ has_prompt_tok(lines[i])}
  IN IF hits = {} THEN 0 ELSE CHOOSE i \in hits : \A j \in hits : j <= i

extract_recent_output_Local(output, command) ==
  LET i == recent_index(output, command)
  IN IF i # 0 THEN StripText(SubSeq(output, i + 1, Len(output)))
     ELSE StripText(LastLines(output, RECENT_LINES))

RECURSIVE until_next_prompt(_)
until_next_prompt(lines) ==
  IF lines = <<>> THEN <<>>
  ELSE LET next_line == Head(lines)
       IN IF /\ has_prompt_tok(next_line)
             /\ \E c \in {"@", ":", "~", "kali"} : HasTok(next_line, c)
          THEN <<>>
          ELSE <<next_line>> \o until_next_prompt(Tail(lines))

extract_recent_output_Tmux(output, command) ==
  LET i == recent_index(output, command)
  IN IF i # 0
     THEN StripText(until_next_prompt(SubSeq(output, i + 1, Len(output))))
     ELSE StripText(LastLines(output, RECENT_LINES))

\* the part of run_simple_fallback after the final capture
fallback_result(v, output, clear_marker, end_marker, command) ==
  LET idx == find_markers(output, 1, 0, clear_marker, end_marker)
  IN IF idx[1] # 0 /\ idx[2] # 0
     THEN IF v = "Local"
          THEN fallback_slice_Local(output, idx[1], idx[2], command)
          ELSE fallback_slice_Tmux(output, idx[1], idx[2], command)
     ELSE IF v = "Local"
          THEN extract_recent_output_Local(output, command)
          ELSE extract_recent_output_Tmux(output, command)

\* the texts of the exceptions
MsgSend == <<"Failed to send command to tmux">>
MsgCapture == <<"Failed to capture tmux output">>
MsgTimeout == <<"Command timed out">>
MsgNoSession == <<"Tmux session does not exist">>
ErrorText(msg) == << <<"Error executing command:", " ">> \o msg >>

\* ------------------------------------------------------------ the state
VARIABLES
  variant,        \* "Local": LocalShellConnection, "Tmux": TmuxShellController
  prompt,         \* the prompt the shell of the session prints
  sessionExists,  \* the session is in tmux's session list
  term,           \* the pane and the shell in it
  history_limit,  \* the session's history-limit option
  initialized,    \* _initialized (Local); connect_to_session returned (Tmux)
  max_wait,       \* self.max_wait
  pc,             \* where the controller is
  fr,             \* the locals of the call in progress
  ret,            \* what run gave its caller
  faults,         \* transport failures still to come
  runs,           \* calls of run so far
  uuid_count,     \* uuid4 calls so far
  gh,             \* history of the call in progress, read by the properties
  parked          \* pc, fr, ret and gh of the caller's other thread

vars == <<variant, prompt, sessionExists, term, history_limit, initialized,
          max_wait, pc, fr, ret, faults, runs, uuid_count, gh, parked>>

NoHash == << <<"None">> >>
NoCursor == <<>>
NoText == <<>>
NoTerm == [pane |-> <<>>, busy |-> FALSE, rem |-> 0, cur |-> <<>>,
           queue |-> <<>>, sigint |-> 0]

MaxWaits == {0, 40}
\* the history-limit of a session before the first call (tmux default)
HistoryLimits == {2000}

Frame0 ==
  [command |-> <<>>, start_marker |-> <<>>, end_marker |-> <<>>,
   clear_marker |-> <<>>, fb_end_marker |-> <<>>,
   timeout |-> 0, elapsed |-> 0, last_output_hash |-> NoHash,
   last_cursor_pos |-> NoCursor, stable_count |-> 0,
   stale |-> NoTerm, ctx |-> "m", fbCtx |-> "none", exc |-> <<>>,
   in_timeout |-> FALSE, timeout_arg |-> 0, old_max_wait |-> 0]

Ghost0 ==
  [nSend |-> 0, nCmdSend |-> 0, nOps |-> 0, nQuery |-> 0, nTicks |-> 0,
   nTimeouts |-> 0, nFallback |-> 0, fbReason |-> "none",
   histPre |-> 0, existedAtCall |-> TRUE, initAtCall |-> FALSE,
   typedAhead |-> FALSE, done |-> FALSE, doneBusy |-> FALSE,
   doneElapsed |-> 0, path |-> "none",
   made |-> <<>>, used |-> {}, snaps |-> <<>>, outcome |-> "none",
   trace |-> <<>>, captured |-> FALSE, final |-> <<>>,
   nWiden |-> 0, nRestore |-> 0, restoreOk |-> FALSE,
   resendAfter |-> "none", resendRunning |-> FALSE, maxWaitPre |-> 0,
   intRunning |-> FALSE]

Ret0 == [kind |-> "none", stdout |-> NoText, stderr |-> NoText, rc |-> 0]

\* the caller has one thread
NoContext ==
  [pc |-> "none", fr |-> Frame0, ret |-> Ret0, gh |-> Ghost0, switches |-> 0]

Term0(pr) ==
  [pane |-> <<pr>>, busy |-> FALSE, rem |-> 0, cur |-> <<>>, queue |-> <<>>,
   sigint |-> 0]

Init ==
  /\ variant \in {"Local", "Tmux"}
  /\ prompt \in Prompts
  /\ sessionExists \in BOOLEAN
  /\ term = Term0(prompt)
  /\ history_limit \in HistoryLimits
  /\ initialized = FALSE
  /\ max_wait \in MaxWaits
  /\ pc = "idle"
  /\ fr = Frame0
  /\ ret = Ret0
  /\ faults = MaxFaults
  /\ runs = 0
  /\ uuid_count = 0
  /\ gh = Ghost0
  /\ parked = NoContext

\* ------------------------------------------------------- the transport
\* whether a subprocess call to tmux can succeed: never without the
\* session, and a transient failure may hit it while faults remain
Outcomes ==
  IF ~sessionExists THEN {FALSE}
  ELSE IF faults > 0 THEN {TRUE, FALSE} ELSE {TRUE}

FaultsAfter(ok) == IF sessionExists /\ ~ok THEN faults - 1 ELSE faults

\* the same for the second call to tmux of one step, n faults remaining
OutcomesAt(n) ==
  IF ~sessionExists THEN {FALSE}
  ELSE IF n > 0 THEN {TRUE, FALSE} ELSE {TRUE}

FaultsAt(n, ok) == IF sessionExists /\ ~ok THEN n - 1 ELSE n

\* check_session / tmux has-session
check_session == sessionExists

\* send_command(text), then time.sleep(delay)
Sent(text, delay) == Advance(Typed(term, text, prompt), delay, prompt)

\* capture_output(history_lines)
capture_output(history_lines) == LastLines(term.pane, history_lines)

\* ghost bookkeeping of one send_command
GhSend(g, isCommand, ok) ==
  [g EXCEPT !.nSend = @ + 1, !.nOps = @ + 1,
            !.nCmdSend = IF isCommand /\ ok THEN @ + 1 ELSE @,
            !.typedAhead = @ \/ (ok /\ term.busy)]

\* history of the transport operations of the marker strategy; the polls
\* of the detector are one entry
GhOp(g, f, op) ==
  IF f.ctx = "m"
     /\ ~(op = "poll" /\ g.trace # <<>> /\ g.trace[Len(g.trace)] = "poll")
  THEN [g EXCEPT !.trace = Append(@, op)] ELSE g

\* history of one wait loop: nothing polled yet, no outcome
GhWait(g) == [g EXCEPT !.snaps = <<>>, !.outcome = "none"]

\* history of the second send of the command: what the detector reported
\* for the first one, and whether the first one is still running
GhResend(g, f) ==
  IF g.nCmdSend = 1
  THEN [g EXCEPT !.resendAfter = g.outcome,
                 !.resendRunning = term.busy /\ term.cur = f.command]
  ELSE g

\* ------------------------------------------------------------ the caller
\* conn.init() of the framework; shell.connect_to_session() of __main__
init ==
  /\ pc = "idle"
  /\ ~initialized
  /\ IF check_session
     THEN /\ initialized' = TRUE
          /\ UNCHANGED <<pc, ret>>
     ELSE /\ pc' = "raised"
          /\ ret' = [Ret0 EXCEPT !.kind = "raise", !.stderr = <<MsgNoSession>>]
          /\ UNCHANGED initialized
  /\ UNCHANGED <<parked, variant, prompt, sessionExists, term, history_limit,
                 max_wait, fr, faults, runs, uuid_count, gh>>

\* the caller calls run(command); __main__ connects before it runs anything
Call(n) ==
  /\ pc = "idle"
  /\ runs < n
  /\ variant = "Tmux" => initialized
  /\ \E c \in Commands :
       /\ fr' = [Frame0 EXCEPT !.command = c]
       /\ gh' = [Ghost0 EXCEPT !.existedAtCall = sessionExists,
                               !.initAtCall = initialized,
                               !.histPre = history_limit,
                               !.used = gh.used]
  /\ pc' = "run"
  /\ runs' = runs + 1
  /\ ret' = Ret0
  /\ UNCHANGED <<parked, variant, prompt, sessionExists, term, history_limit,
                 initialized, max_wait, faults, uuid_count>>

CallRun == Call(MaxRuns)

\* one more call on the same session
CallRunAgain == Call(MaxRuns + 1)

\* the marker tokens of a history
Tokens(made) == {made[i] : i \in 1..Len(made)}

\* the caller takes the result; the locals of the call are gone
Resume ==
  /\ pc = "returned"
  /\ pc' = "idle"
  /\ fr' = Frame0
  /\ ret' = Ret0
  /\ gh' = [Ghost0 EXCEPT !.used = gh.used \cup Tokens(gh.made)]
  /\ UNCHANGED <<parked, variant, prompt, sessionExists, term, history_limit,
                 initialized, max_wait, faults, runs, uuid_count>>

\* ------------------------------------------------------------------ run
\* whether run calls init() first
run_checks_session(v, isInit) == v = "Local" /\ ~isInit

\* run: the session check, the empty command, the markers of
\* run_with_unique_markers
run ==
  /\ pc = "run"
  /\ LET checks == run_checks_session(variant, initialized)
         g1 == IF checks THEN [gh EXCEPT !.nQuery = @ + 1] ELSE gh
     IN IF checks /\ ~check_session
        THEN /\ pc' = "raised"
             /\ ret' = [Ret0 EXCEPT !.kind = "raise",
                                    !.stderr = <<MsgNoSession>>]
             /\ gh' = [g1 EXCEPT !.path = "fatal"]
             /\ UNCHANGED <<initialized, fr, uuid_count>>
        ELSE /\ initialized' = (initialized \/ checks)
             /\ IF Strip(fr.command) = <<>>
                THEN /\ pc' = "returned"
                     /\ ret' = [Ret0 EXCEPT !.kind = "value"]
                     /\ gh' = [g1 EXCEPT !.path = "empty"]
                     /\ UNCHANGED <<fr, uuid_count>>
                ELSE /\ pc' = "m_start"
                     /\ fr' = [fr EXCEPT
                                 !.start_marker = StartMarker(uuid_count + 1),
                                 !.end_marker = EndMarker(uuid_count + 2)]
                     /\ uuid_count' = uuid_count + 2
                     /\ gh' = [g1 EXCEPT !.made =
                                 @ \o <<StartMarker(uuid_count + 1),
                                        EndMarker(uuid_count + 2)>>]
                     /\ UNCHANGED ret
  /\ UNCHANGED <<parked, variant, prompt, sessionExists, term, history_limit,
                 max_wait, faults, runs>>

\* the except clause of run_with_unique_markers, and the call of
\* run_simple_fallback from _extract_between_markers
ToFallback(f, g, from, reason, msg) ==
  /\ pc' = "f_clear"
  /\ fr' = [f EXCEPT !.fbCtx = from, !.exc = msg, !.stale = NoTerm]
  /\ gh' = [g EXCEPT !.nFallback = @ + 1,
                     !.fbReason = IF @ = "none" THEN reason ELSE @,
                     !.histPre = history_limit]

\* self.send_command(f"echo '{start_marker}'"); time.sleep(0.5)
m_start ==
  /\ pc = "m_start"
  /\ \E ok \in Outcomes :
       /\ faults' = FaultsAfter(ok)
       /\ IF ok
          THEN /\ term' = Sent(EchoSq(fr.start_marker), DELAY_START)
               /\ pc' = "m_cmd"
               /\ gh' = GhOp(GhSend(gh, FALSE, ok), fr, "start")
               /\ UNCHANGED fr
          ELSE /\ ToFallback(fr, GhOp(GhSend(gh, FALSE, ok), fr, "start"),
                             "handler", "transport", MsgSend)
               /\ UNCHANGED term
  /\ UNCHANGED <<parked, variant, prompt, sessionExists, history_limit,
                 initialized, max_wait, ret, runs, uuid_count>>

\* the locals of wait_for_command_completion at its start.  No sleep lies
\* between the send of the command and the first capture: when `late`, the
\* first capture is taken before the pane shows the keystrokes.
WaitStart(f, ctx, late) ==
  [f EXCEPT !.timeout = max_wait, !.elapsed = 0,
            !.last_output_hash = NoHash, !.last_cursor_pos = NoCursor,
            !.stable_count = 0, !.ctx = ctx,
            !.stale = IF late THEN term ELSE NoTerm]

\* the pane a tick of the wait loop reads
Seen(f) == IF f.stale = NoTerm THEN term ELSE f.stale

\* self.send_command(command), and the entry of wait_for_command_completion
m_cmd ==
  /\ pc = "m_cmd"
  /\ \E ok \in Outcomes :
       /\ faults' = FaultsAfter(ok)
       /\ IF ok
          THEN /\ term' = Sent(fr.command, 0)
               /\ pc' = "wait"
               /\ \E late \in BOOLEAN : fr' = WaitStart(fr, "m", late)
               /\ gh' = GhWait(GhOp(GhSend(gh, TRUE, ok), fr, "command"))
          ELSE /\ ToFallback(fr, GhOp(GhSend(gh, TRUE, ok), fr, "command"),
                             "handler", "transport", MsgSend)
               /\ UNCHANGED term
  /\ UNCHANGED <<parked, variant, prompt, sessionExists, history_limit,
                 initialized, max_wait, ret, runs, uuid_count>>

\* ------------------------------------------ wait_for_command_completion
\* the stability test of one tick
stable_tick(f, h, c) ==
  h = f.last_output_hash /\ c = f.last_cursor_pos /\ c # NoCursor

\* mutant: DONE without the prompt test
completion_no_prompt(f, output, c) ==
  /\ stable_tick(f, hash(output), c)
  /\ (f.stable_count + 1) * CHECK_INTERVAL >= MIN_STABLE_TIME

\* the tick returns True
completion(f, output, c) ==
  /\ stable_tick(f, hash(output), c)
  /\ (f.stable_count + 1) * CHECK_INTERVAL >= MIN_STABLE_TIME
  /\ has_prompt_at_end(output)

\* `if not self.wait_for_command_completion(): raise RuntimeError(...)`
\* of LocalShellConnection; TmuxShellController prints a warning
timeout_raises(v) == v = "Local"

\* mutant: the final capture follows the detector, no end marker is sent
Waited_no_end(f, g, result) ==
  /\ pc' = IF f.ctx = "m" THEN "m_capture" ELSE "f_end"
  /\ fr' = [f EXCEPT !.stale = NoTerm]
  /\ gh' = g

\* what follows the return of wait_for_command_completion
Waited(f, g, result) ==
  IF f.ctx = "m"
  THEN IF ~result /\ timeout_raises(variant)
       THEN ToFallback(f, g, "handler", "timeout", MsgTimeout)
       ELSE pc' = "m_end" /\ fr' = [f EXCEPT !.stale = NoTerm] /\ gh' = g
  ELSE pc' = "f_end" /\ fr' = [f EXCEPT !.stale = NoTerm] /\ gh' = g

\* capture_output raised inside wait_for_command_completion
WaitRaised(f, g) ==
  IF f.ctx = "m"
  THEN ToFallback(f, g, "handler", "transport", MsgCapture)
  ELSE /\ pc' = "f_except"
       /\ fr' = [f EXCEPT !.exc = MsgCapture, !.stale = NoTerm]
       /\ gh' = g

\* mutant: the loop runs while elapsed <= timeout
loop_continues_inclusive(f) == f.elapsed <= f.timeout

\* `while time.time() - start_time < timeout`
loop_continues(f) == f.elapsed < f.timeout

\* mutant: an unstable tick leaves the count as it is
next_stable_count_kept(f, h, c) ==
  IF stable_tick(f, h, c) THEN f.stable_count + 1 ELSE f.stable_count

\* `stable_count += 1` / `stable_count = 0`
next_stable_count(f, h, c) ==
  IF stable_tick(f, h, c) THEN f.stable_count + 1 ELSE 0

\* one turn of the while loop
wait_for_command_completion ==
  /\ pc = "wait"
  /\ IF ~loop_continues(fr)
     THEN /\ Waited(fr, GhOp([gh EXCEPT !.nTimeouts = @ + 1,
                                        !.outcome = "TIMEOUT"],
                             fr, "detector"), FALSE)
          /\ UNCHANGED <<term, faults>>
     ELSE \E okc \in Outcomes :
          IF ~okc
          THEN /\ WaitRaised(fr, GhOp([gh EXCEPT !.nTicks = @ + 1,
                                                 !.nOps = @ + 1,
                                                 !.outcome = "error"],
                                      fr, "poll"))
               /\ faults' = FaultsAfter(okc)
               /\ UNCHANGED term
          ELSE \E okq \in Outcomes :
               LET current_output == LastLines(Seen(fr).pane, POLL_LINES)
                   current_cursor ==
                     IF okq THEN CursorOf(Seen(fr)) ELSE NoCursor
                   count == next_stable_count(fr, hash(current_output),
                                              current_cursor)
                   g == GhOp([gh EXCEPT
                                !.nTicks = @ + 1, !.nOps = @ + 2,
                                !.snaps = Append(@,
                                            [text |-> current_output,
                                             c |-> current_cursor])],
                             fr, "poll")
               IN /\ faults' = FaultsAfter(okq)
                  /\ IF completion(fr, current_output, current_cursor)
                     THEN /\ Waited([fr EXCEPT !.stable_count = count],
                                    GhOp([g EXCEPT !.done = TRUE,
                                                   !.doneBusy = term.busy,
                                                   !.doneElapsed = fr.elapsed,
                                                   !.outcome = "DONE"],
                                         fr, "detector"),
                                    TRUE)
                          /\ UNCHANGED term
                     ELSE /\ fr' = [fr EXCEPT
                                 !.stable_count = count,
                                 !.last_output_hash = hash(current_output),
                                 !.last_cursor_pos = current_cursor,
                                 !.elapsed = @ + CHECK_INTERVAL,
                                 !.stale = NoTerm]
                          /\ term' = Advance(term, CHECK_INTERVAL, prompt)
                          /\ gh' = g
                          /\ pc' = "wait"
  /\ UNCHANGED <<parked, variant, prompt, sessionExists, history_limit,
                 initialized, max_wait, ret, runs, uuid_count>>

\* ------------------------------------- run_with_unique_markers, the rest
\* run's result for the value run_with_unique_markers returned
Returned(output) ==
  [kind |-> "value", stdout |-> output, stderr |-> NoText, rc |-> 0]

\* mutant: the end marker is sent a second time after the sleep
m_end_twice ==
  /\ pc = "m_end"
  /\ \E ok \in Outcomes :
       /\ faults' = FaultsAfter(ok)
       /\ IF ok
          THEN /\ term' = Advance(Typed(Sent(EchoSq(fr.end_marker), DELAY_END),
                                        EchoSq(fr.end_marker), prompt),
                                  DELAY_END, prompt)
               /\ pc' = "m_capture"
               /\ gh' = GhOp(GhSend(GhOp(GhSend(gh, FALSE, ok), fr, "end"),
                                    FALSE, ok), fr, "end")
               /\ UNCHANGED fr
          ELSE /\ ToFallback(fr, GhOp(GhSend(gh, FALSE, ok), fr, "end"),
                             "handler", "transport", MsgSend)
               /\ UNCHANGED term
  /\ UNCHANGED <<parked, variant, prompt, sessionExists, history_limit,
                 initialized, max_wait, ret, runs, uuid_count>>

\* self.send_command(f"echo '{end_marker}'"); time.sleep(0.8)
m_end ==
  /\ pc = "m_end"
  /\ \E ok \in Outcomes :
       /\ faults' = FaultsAfter(ok)
       /\ IF ok
          THEN /\ term' = Sent(EchoSq(fr.end_marker), DELAY_END)
               /\ pc' = "m_capture"
               /\ gh' = GhOp(GhSend(gh, FALSE, ok), fr, "end")
               /\ UNCHANGED fr
          ELSE /\ ToFallback(fr, GhOp(GhSend(gh, FALSE, ok), fr, "end"),
                             "handler", "transport", MsgSend)
               /\ UNCHANGED term
  /\ UNCHANGED <<parked, variant, prompt, sessionExists, history_limit,
                 initialized, max_wait, ret, runs, uuid_count>>

\* final_output = self.capture_output(50000); _extract_between_markers
m_capture ==
  /\ pc = "m_capture"
  /\ \E ok \in Outcomes :
       /\ faults' = FaultsAfter(ok)
       /\ LET final_output == capture_output(FINAL_LINES)
              g == GhOp([gh EXCEPT !.nOps = @ + 1, !.captured = ok,
                                   !.final = IF ok THEN final_output ELSE @],
                        fr, "capture")
          IN IF ~ok
             THEN /\ ToFallback(fr, g, "handler", "transport", MsgCapture)
                  /\ UNCHANGED ret
             ELSE IF markers_found(final_output, fr.start_marker,
                                   fr.end_marker)
             THEN /\ pc' = "returned"
                  /\ ret' = Returned(extract_between_markers(final_output,
                                fr.start_marker, fr.end_marker, fr.command))
                  /\ gh' = [g EXCEPT !.path = "marker"]
                  /\ UNCHANGED fr
             ELSE /\ ToFallback(fr, g, "extract", "markers", <<>>)
                  /\ UNCHANGED ret
  /\ UNCHANGED <<parked, variant, prompt, sessionExists, term, history_limit,
                 initialized, max_wait, runs, uuid_count>>

\* ------------------------------------------------- run_simple_fallback
\* tmux set-option history-limit n: subprocess.run without check, so a
\* failure is silent
set_history_limit(n, ok) == IF ok THEN n ELSE history_limit

\* the value the fallback sets the history limit to when it leaves
restore_value == HISTORY_RESET

\* set-option 50000; clear_marker; self.send_command('clear'); sleep(0.3)
f_clear ==
  /\ pc = "f_clear"
  /\ \E okh \in Outcomes : \E ok \in OutcomesAt(FaultsAfter(okh)) :
       /\ faults' = FaultsAt(FaultsAfter(okh), ok)
       /\ history_limit' = set_history_limit(HISTORY_WIDE, okh)
       /\ uuid_count' = uuid_count + 1
       /\ gh' = GhSend([gh EXCEPT !.nOps = @ + 1, !.nWiden = @ + 1,
                                  !.made = Append(@,
                                             ClearMarker(uuid_count + 1))],
                       FALSE, ok)
       /\ IF ok
          THEN /\ term' = Sent(CmdClear, DELAY_CLEAR)
               /\ pc' = "f_marker"
               /\ fr' = [fr EXCEPT !.clear_marker =
                                      ClearMarker(uuid_count + 1)]
          ELSE /\ pc' = "f_except"
               /\ fr' = [fr EXCEPT !.clear_marker =
                                      ClearMarker(uuid_count + 1),
                                   !.exc = MsgSend]
               /\ UNCHANGED term
  /\ UNCHANGED <<parked, variant, prompt, sessionExists, initialized,
                 max_wait, ret, runs>>

\* self.send_command(f'echo "{clear_marker}"'); time.sleep(0.3)
f_marker ==
  /\ pc = "f_marker"
  /\ \E ok \in Outcomes :
       /\ faults' = FaultsAfter(ok)
       /\ gh' = GhSend(gh, FALSE, ok)
       /\ IF ok
          THEN /\ term' = Sent(EchoDq(fr.clear_marker), DELAY_CLEAR)
               /\ pc' = "f_cmd"
               /\ UNCHANGED fr
          ELSE /\ pc' = "f_except"
               /\ fr' = [fr EXCEPT !.exc = MsgSend]
               /\ UNCHANGED term
  /\ UNCHANGED <<parked, variant, prompt, sessionExists, history_limit,
                 initialized, max_wait, ret, runs, uuid_count>>

\* self.send_command(command), and the entry of wait_for_command_completion
f_cmd ==
  /\ pc = "f_cmd"
  /\ \E ok \in Outcomes :
       /\ faults' = FaultsAfter(ok)
       /\ gh' = IF ok THEN GhWait(GhSend(GhResend(gh, fr), TRUE, ok))
                ELSE GhSend(gh, TRUE, ok)
       /\ IF ok
          THEN /\ term' = Sent(fr.command, 0)
               /\ pc' = "wait"
               /\ \E late \in BOOLEAN : fr' = WaitStart(fr, "f", late)
          ELSE /\ pc' = "f_except"
               /\ fr' = [fr EXCEPT !.exc = MsgSend]
               /\ UNCHANGED term
  /\ UNCHANGED <<parked, variant, prompt, sessionExists, history_limit,
                 initialized, max_wait, ret, runs, uuid_count>>

\* end_marker; self.send_command(f'echo "{end_marker}"'); time.sleep(0.5)
f_end ==
  /\ pc = "f_end"
  /\ \E ok \in Outcomes :
       /\ faults' = FaultsAfter(ok)
       /\ gh' = GhSend([gh EXCEPT !.made =
                                 Append(@, FbEndMarker(uuid_count + 1))],
                       FALSE, ok)
       /\ uuid_count' = uuid_count + 1
       /\ IF ok
          THEN /\ term' = Sent(EchoDq(FbEndMarker(uuid_count + 1)),
                               DELAY_FB_END)
               /\ pc' = "f_capture"
               /\ fr' = [fr EXCEPT !.fb_end_marker =
                                      FbEndMarker(uuid_count + 1)]
          ELSE /\ pc' = "f_except"
               /\ fr' = [fr EXCEPT !.fb_end_marker =
                                      FbEndMarker(uuid_count + 1),
                                   !.exc = MsgSend]
               /\ UNCHANGED term
  /\ UNCHANGED <<parked, variant, prompt, sessionExists, history_limit,
                 initialized, max_wait, ret, runs>>

\* output = self.capture_output(50000), the slicing, the reset of the
\* history limit, return result
f_capture ==
  /\ pc = "f_capture"
  /\ \E ok \in Outcomes :
       IF ~ok
       THEN /\ faults' = FaultsAfter(ok)
            /\ pc' = "f_except"
            /\ fr' = [fr EXCEPT !.exc = MsgCapture]
            /\ gh' = [gh EXCEPT !.nOps = @ + 1]
            /\ UNCHANGED <<history_limit, ret>>
       ELSE \E okh \in Outcomes :
            /\ faults' = FaultsAfter(okh)
            /\ history_limit' = set_history_limit(restore_value, okh)
            /\ pc' = "returned"
            /\ ret' = Returned(fallback_result(variant,
                         capture_output(FINAL_LINES), fr.clear_marker,
                         fr.fb_end_marker, fr.command))
            /\ gh' = [gh EXCEPT !.nOps = @ + 2, !.path = "fallback",
                                 !.nRestore = @ + 1, !.restoreOk = okh]
            /\ UNCHANGED fr
  /\ UNCHANGED <<parked, variant, prompt, sessionExists, term, initialized,
                 max_wait, runs, uuid_count>>

\* `raise RuntimeError(f"Error executing command: {e}")` of
\* LocalShellConnection; TmuxShellController returns the text
fallback_raises(v) == v = "Local"

\* mutant: run without its except clause, the exception reaches the caller
run_reraises(msg) ==
  [kind |-> "raise", stdout |-> NoText, stderr |-> ErrorText(msg), rc |-> 0]

\* run's `except Exception as e: return "", str(e), 1`
run_on_exception(msg) ==
  [kind |-> "value", stdout |-> NoText, stderr |-> ErrorText(msg), rc |-> 1]

PcOf(r) == IF r.kind = "raise" THEN "raised" ELSE "returned"

\* mutant: the except clause leaves the history limit as it is
except_resets_history_never(v) == FALSE

\* whether the except clause of run_simple_fallback issues
\* `tmux set-option history-limit 10000`
except_resets_history(v) == v \in {"Local", "Tmux"}

\* the except clause of run_simple_fallback
f_except ==
  /\ pc = "f_except"
  /\ \E okh \in IF except_resets_history(variant) THEN Outcomes ELSE {TRUE} :
       /\ faults' = IF except_resets_history(variant)
                     THEN FaultsAfter(okh) ELSE faults
       /\ history_limit' = IF except_resets_history(variant)
                            THEN set_history_limit(restore_value, okh)
                            ELSE history_limit
       /\ LET g == IF except_resets_history(variant)
                   THEN [gh EXCEPT !.nOps = @ + 1, !.nRestore = @ + 1,
                                   !.restoreOk = okh]
                   ELSE gh
          IN IF fallback_raises(variant)
             THEN IF fr.fbCtx = "extract"
                  THEN /\ ToFallback(fr, g, "handler", "transport", fr.exc)
                       /\ UNCHANGED ret
                  ELSE /\ ret' = run_on_exception(fr.exc)
                       /\ pc' = PcOf(run_on_exception(fr.exc))
                       /\ gh' = [g EXCEPT !.path = "error"]
                       /\ UNCHANGED fr
             ELSE /\ pc' = "returned"
                  /\ ret' = Returned(ErrorText(fr.exc))
                  /\ gh' = [g EXCEPT !.path = "error"]
                  /\ UNCHANGED fr
  /\ UNCHANGED <<parked, variant, prompt, sessionExists, term, initialized,
                 max_wait, runs, uuid_count>>

\* ------------------------------------------------------ the environment
\* the session is killed (tmux kill-session, the shell exits) between two
\* calls or while the controller waits for the command
KillSession ==
  /\ sessionExists
  /\ pc \in {"idle", "wait"}
  /\ sessionExists' = FALSE
  /\ UNCHANGED <<parked, variant, prompt, term, history_limit, initialized,
                 max_wait, pc, fr, ret, faults, runs, uuid_count, gh>>

\* between two calls the running line ends
Elapse ==
  /\ pc = "idle"
  /\ sessionExists
  /\ term.busy
  /\ term' = Advance(term, term.rem, prompt)
  /\ UNCHANGED <<parked, variant, prompt, sessionExists, history_limit,
                 initialized, max_wait, pc, fr, ret, faults, runs, uuid_count,
                 gh>>

Next ==
  \/ init
  \/ CallRun
  \/ Resume
  \/ run
  \/ m_start
  \/ m_cmd
  \/ wait_for_command_completion
  \/ m_end
  \/ m_capture
  \/ f_clear
  \/ f_marker
  \/ f_cmd
  \/ f_end
  \/ f_capture
  \/ f_except
  \/ KillSession
  \/ Elapse

Spec == Init /\ [][Next]_vars

\* A sequence of calls on one live session, no transport failure: the
\* scrollback of a call holds what the earlier calls left.
InitCalls ==
  /\ variant \in {"Local", "Tmux"}
  /\ prompt \in Prompts
  /\ sessionExists = TRUE
  /\ term = Term0(prompt)
  /\ history_limit = HISTORY_RESET
  /\ initialized = FALSE
  /\ max_wait \in MaxWaits
  /\ pc = "idle"
  /\ fr = Frame0
  /\ ret = Ret0
  /\ faults = 0
  /\ runs = 0
  /\ uuid_count = 0
  /\ gh = Ghost0
  /\ parked = NoContext

NextCalls ==
  \/ init
  \/ CallRunAgain
  \/ Resume
  \/ run
  \/ m_start
  \/ m_cmd
  \/ wait_for_command_completion
  \/ m_end
  \/ m_capture
  \/ f_clear
  \/ f_marker
  \/ f_cmd
  \/ f_end
  \/ f_capture
  \/ Elapse

SpecCalls == InitCalls /\ [][NextCalls]_vars

\* ------------------------------------------------------ run_with_timeout
\* the timeouts a caller passes to run_with_timeout
Timeouts == {0, 20}

\* old_max_wait = self.max_wait; self.max_wait = timeout; self.run(command)
RunWithTimeout(n, cmds) ==
  /\ pc = "idle"
  /\ runs < n
  /\ variant = "Tmux" => initialized
  /\ \E c \in cmds : \E t \in Timeouts :
       /\ fr' = [Frame0 EXCEPT !.command = c, !.in_timeout = TRUE,
                               !.timeout_arg = t, !.old_max_wait = max_wait]
       /\ max_wait' = t
       /\ gh' = [Ghost0 EXCEPT !.existedAtCall = sessionExists,
                               !.initAtCall = initialized,
                               !.histPre = history_limit,
                               !.used = gh.used,
                               !.maxWaitPre =
                                 IF parked.pc \in {"none", "idle"}
                                 THEN max_wait ELSE parked.gh.maxWaitPre]
  /\ pc' = "run"
  /\ runs' = runs + 1
  /\ ret' = Ret0
  /\ UNCHANGED <<parked, variant, prompt, sessionExists, term, history_limit,
                 initialized, faults, uuid_count>>

run_with_timeout == RunWithTimeout(MaxRuns, Commands)

\* mutant: max_wait keeps the timeout of the call
finally_max_wait_kept(f) == max_wait

\* `finally: self.max_wait = old_max_wait`
finally_max_wait(f) == f.old_max_wait

\* run has returned or raised: the finally clause, then the caller has the
\* result or the exception
run_with_timeout_finally ==
  /\ pc \in {"returned", "raised"}
  /\ fr.in_timeout
  /\ max_wait' = finally_max_wait(fr)
  /\ pc' = IF pc = "returned" THEN "rwt_returned" ELSE "rwt_raised"
  /\ UNCHANGED <<parked, variant, prompt, sessionExists, term, history_limit,
                 initialized, fr, ret, faults, runs, uuid_count, gh>>

\* the caller takes the result of run_with_timeout
ResumeTimeout ==
  /\ pc = "rwt_returned"
  /\ pc' = "idle"
  /\ fr' = Frame0
  /\ ret' = Ret0
  /\ gh' = [Ghost0 EXCEPT !.used = gh.used \cup Tokens(gh.made)]
  /\ UNCHANGED <<parked, variant, prompt, sessionExists, term, history_limit,
                 initialized, max_wait, faults, runs, uuid_count>>

\* Calls of run_with_timeout on a session that may be missing or be killed.
InitTimeout ==
  /\ variant \in {"Local", "Tmux"}
  /\ prompt \in Prompts
  /\ sessionExists \in BOOLEAN
  /\ term = Term0(prompt)
  /\ history_limit = HISTORY_RESET
  /\ initialized = FALSE
  /\ max_wait \in MaxWaits
  /\ pc = "idle"
  /\ fr = Frame0
  /\ ret = Ret0
  /\ faults = 0
  /\ runs = 0
  /\ uuid_count = 0
  /\ gh = Ghost0
  /\ parked = NoContext

NextTimeout ==
  \/ init
  \/ run_with_timeout
  \/ run_with_timeout_finally
  \/ ResumeTimeout
  \/ run
  \/ m_start
  \/ m_cmd
  \/ wait_for_command_completion
  \/ m_end
  \/ m_capture
  \/ f_clear
  \/ f_marker
  \/ f_cmd
  \/ f_end
  \/ f_capture
  \/ f_except
  \/ KillSession
  \/ Elapse

SpecTimeout == InitTimeout /\ [][NextTimeout]_vars

\* ---------------------------------------------------- interrupt_command
MaxInterrupts == 1

\* mutant: the result does not depend on the send
interrupt_result_always(ok) == TRUE

\* `return True` after the send, `return False` in the except clause
interrupt_result(ok) == ok

\* the caller calls interrupt_command between two calls of run:
\* tmux send-keys C-c, time.sleep(1)
interrupt_command ==
  /\ pc = "idle"
  /\ term.sigint < MaxInterrupts
  /\ \E ok \in Outcomes :
       /\ term' = IF ok THEN Advance(Interrupted(term, prompt), 10, prompt)
                  ELSE term
       /\ faults' = FaultsAfter(ok)
       /\ ret' = [Ret0 EXCEPT !.kind =
                    IF interrupt_result(ok) THEN "True" ELSE "False"]
  /\ pc' = "interrupted"
  /\ gh' = [Ghost0 EXCEPT !.used = gh.used, !.intRunning = term.busy]
  /\ UNCHANGED <<parked, variant, prompt, sessionExists, history_limit,
                 initialized, max_wait, fr, runs, uuid_count>>

\* the caller takes the result of interrupt_command
ResumeInterrupt ==
  /\ pc = "interrupted"
  /\ pc' = "idle"
  /\ ret' = Ret0
  /\ gh' = [Ghost0 EXCEPT !.used = gh.used]
  /\ UNCHANGED <<parked, variant, prompt, sessionExists, term, history_limit,
                 initialized, max_wait, fr, faults, runs, uuid_count>>

\* Calls of run and of interrupt_command, one after the other, on a
\* session whose shell prints the prompt `user@host:~$ `.
InitInterrupt ==
  /\ variant \in {"Local", "Tmux"}
  /\ prompt = PromptDollar
  /\ sessionExists \in BOOLEAN
  /\ term = Term0(prompt)
  /\ history_limit \in HistoryLimits
  /\ initialized = FALSE
  /\ max_wait \in MaxWaits
  /\ pc = "idle"
  /\ fr = Frame0
  /\ ret = Ret0
  /\ faults = MaxFaults
  /\ runs = 0
  /\ uuid_count = 0
  /\ gh = Ghost0
  /\ parked = NoContext

NextInterrupt ==
  \/ init
  \/ CallRun
  \/ Resume
  \/ interrupt_command
  \/ ResumeInterrupt
  \/ run
  \/ m_start
  \/ m_cmd
  \/ wait_for_command_completion
  \/ m_end
  \/ m_capture
  \/ f_clear
  \/ f_marker
  \/ f_cmd
  \/ f_end
  \/ f_capture
  \/ f_except
  \/ KillSession
  \/ Elapse

SpecInterrupt == InitInterrupt /\ [][NextInterrupt]_vars

\* ----------------------------------------------------- overlapping calls
\* Two threads of the caller use one controller.  One thread runs at a
\* time; pc, fr, ret and gh are those of the running thread, `parked` holds
\* those of the other.  max_wait is an attribute of the controller and the
\* pane belongs to the session: both threads read and write the same ones.
MaxSwitches == 3

\* the interpreter hands control to the other thread
Switch ==
  /\ parked.pc # "none"
  /\ parked.switches < MaxSwitches
  /\ pc' = parked.pc
  /\ fr' = parked.fr
  /\ ret' = parked.ret
  /\ gh' = parked.gh
  /\ parked' = [pc |-> pc, fr |-> fr, ret |-> ret, gh |-> gh,
                switches |-> parked.switches + 1]
  /\ UNCHANGED <<variant, prompt, sessionExists, term, history_limit,
                 initialized, max_wait, faults, runs, uuid_count>>

\* a thread calls run_with_timeout; the other thread's call may be in
\* progress
run_with_timeout_overlapping ==
  RunWithTimeout(MaxRuns + 1, {CmdEcho})

\* Both threads are idle, the controller is connected to its session.  The
\* session stays and no transport call fails, so no fallback raises; the
\* command prints at once, so no line runs between two calls.
InitThreads ==
  /\ variant \in {"Local", "Tmux"}
  /\ prompt = PromptDollar
  /\ sessionExists = TRUE
  /\ term = Term0(prompt)
  /\ history_limit = HISTORY_RESET
  /\ initialized = TRUE
  /\ max_wait \in MaxWaits
  /\ pc = "idle"
  /\ fr = Frame0
  /\ ret = Ret0
  /\ faults = 0
  /\ runs = 0
  /\ uuid_count = 0
  /\ gh = Ghost0
  /\ parked = [NoContext EXCEPT !.pc = "idle"]

NextThreads ==
  \/ run_with_timeout_overlapping
  \/ run_with_timeout_finally
  \/ ResumeTimeout
  \/ Switch
  \/ run
  \/ m_start
  \/ m_cmd
  \/ wait_for_command_completion
  \/ m_end
  \/ m_capture
  \/ f_clear
  \/ f_marker
  \/ f_cmd
  \/ f_end
  \/ f_capture

SpecThreads == InitThreads /\ [][NextThreads]_vars

\* ------------------------------------------------ the text functions
\* The functions that read a capture, applied to every text of a bounded
\* number of lines over a set of lines: the capture is term.pane, the
\* command and the markers are those of fr, the result goes to ret.
TextsOver(lines, max) == UNION {[1..n -> lines] : n \in 0..max}

InitText(lines, max, cmds) ==
  /\ variant \in {"Local", "Tmux"}
  /\ prompt = PromptDollar
  /\ sessionExists = TRUE
  /\ \E text \in TextsOver(lines, max) : term = [Term0(prompt) EXCEPT !.pane = text]
  /\ history_limit = HISTORY_RESET
  /\ initialized = TRUE
  /\ max_wait = 0
  /\ pc = "idle"
  /\ \E c \in cmds :
       fr = [Frame0 EXCEPT !.command = c,
                           !.start_marker = StartMarker(1),
                           !.end_marker = EndMarker(2),
                           !.clear_marker = ClearMarker(3),
                           !.fb_end_marker = FbEndMarker(4)]
  /\ ret = Ret0
  /\ faults = 0
  /\ runs = 0
  /\ uuid_count = 4
  /\ gh = Ghost0
  /\ parked = NoContext

\* the result of a function that returns a bool
Bool(b) == [Ret0 EXCEPT !.kind = IF b THEN "True" ELSE "False"]

\* the last lines of snapshots: prompts, plain output, lines with a prompt
\* character or a colon inside, lines with a keyword, long lines
PromptLines ==
  { <<>>, <<" ">>,
    PromptDollar,
    <<"root", "#">>,
    <<"hello">>,
    <<" ", "total", ":", " ", "5", " ">>,
    <<"a", " ", ">", " ", "b">>,
    <<"error", ":", " ", "x">>,
    <<"ERROR", ":", " ", "x">>,
    <<"unfinished", ":", " ", "x">>,
    <<"Failed", " ", "$", " ">>,
    <<"LONG100", ":">>,
    <<"LONG100", " ", "$">>,
    <<" ", " ", "W97", ":", " ">> }

InitPrompt == InitText(PromptLines, MaxLines, {CmdEcho})

\* self._has_prompt_at_end(current_output)
apply_has_prompt_at_end ==
  /\ pc = "idle"
  /\ pc' = "matched"
  /\ ret' = Bool(has_prompt_at_end(term.pane))
  /\ UNCHANGED <<parked, variant, prompt, sessionExists, term, history_limit,
                 initialized, max_wait, fr, faults, runs, uuid_count, gh>>

NextPrompt == apply_has_prompt_at_end

SpecPrompt == InitPrompt /\ [][NextPrompt]_vars

\* the lines of a final capture of the marker strategy: the typed and the
\* printed start marker, a line with both markers, the typed command, its
\* output, the end marker, a blank line
ExtractLines ==
  { PromptDollar \o EchoSq(StartMarker(1)),
    StartMarker(1),
    StartMarker(1) \o <<" ">> \o EchoSq(EndMarker(2)),
    PromptDollar \o CmdEcho,
    <<"hello">>,
    EndMarker(2),
    <<>> }

InitExtract == InitText(ExtractLines, MaxCapture, {CmdEcho})

\* self._extract_between_markers(final_output, start_marker, end_marker,
\* command), up to the call of the fallback
apply_extract_between_markers ==
  /\ pc = "idle"
  /\ IF markers_found(term.pane, fr.start_marker, fr.end_marker)
     THEN /\ pc' = "sliced"
          /\ ret' = Returned(extract_between_markers(term.pane,
                        fr.start_marker, fr.end_marker, fr.command))
     ELSE /\ pc' = "f_clear"
          /\ UNCHANGED ret
  /\ UNCHANGED <<parked, variant, prompt, sessionExists, term, history_limit,
                 initialized, max_wait, fr, faults, runs, uuid_count, gh>>

NextExtract == apply_extract_between_markers

SpecExtract == InitExtract /\ [][NextExtract]_vars

\* the lines of a final capture of the fallback: the clear marker, the
\* typed end marker, the typed command under two prompts, output with and
\* without a prompt character, a prompt, a blank line
FallbackLines ==
  { ClearMarker(3),
    PromptDollar \o EchoDq(FbEndMarker(4)),
    PromptDollar \o CmdEcho,
    PromptPercent \o CmdEcho,
    <<"hello">>,
    <<"cost", " ", "$", "5">>,
    <<" ", "total", ":", " ", "$", "5">>,
    PromptDollar,
    <<>> }

InitFallbackText == InitText(FallbackLines, MaxCapture, {CmdEcho})

\* the part of run_simple_fallback between the final capture and the
\* reset of the history limit
apply_fallback_result ==
  /\ pc = "idle"
  /\ pc' = IF markers_found(term.pane, fr.clear_marker, fr.fb_end_marker)
           THEN "fb_sliced" ELSE "fb_recent"
  /\ ret' = Returned(fallback_result(variant, term.pane, fr.clear_marker,
                                     fr.fb_end_marker, fr.command))
  /\ UNCHANGED <<parked, variant, prompt, sessionExists, term, history_limit,
                 initialized, max_wait, fr, faults, runs, uuid_count, gh>>

NextFallbackText == apply_fallback_result

SpecFallbackText == InitFallbackText /\ [][NextFallbackText]_vars

\* ================================================================ claims
\* the call returned through the marker strategy and none of its keystrokes
\* was typed while another line was running
MarkerSuccess ==
  pc = "returned" /\ gh.path = "marker" /\ ~gh.typedAhead

\* only the surrounding blank lines removed
TrimBlankLines(lines) == DropTrailingBlank(DropLeadingBlank(lines))

\* the line is c, or is c after the first "$", the first "#" or the first ">"
EchoOf(line, c) ==
  \/ Strip(line) = c /\ c # <<>>
  \/ \E p \in {"$", "#", ">"} : \E i \in 1..Len(line) :
       /\ line[i] = p
       /\ \A j \in 1..(i - 1) : line[j] # p
       /\ Strip(SubSeq(line, i + 1, Len(line))) = c

\* the lines of the command's output that are no echo of the command
OutputKept(c) == SelectSeq(Out(c), LAMBDA line : ~EchoOf(line, c))

\* the prompt ends in one "$", "#" or ">" and blanks
PromptRecognised(pr) ==
  \E p \in {"$", "#", ">"} :
    /\ EndsIn(Strip(pr), {p})
    /\ Cardinality({i \in 1..Len(pr) : pr[i] = p}) = 1

CalledWithoutSession ==
  runs > 0 /\ ~gh.existedAtCall /\ Strip(fr.command) # <<>>

\* no transport failure has happened and the session is alive
NoFailure == sessionExists /\ faults = MaxFaults

\* C2 as stated: for `sleep 2 && echo done` the detector does not report
\* DONE before the command has ended and the window has passed (3.5 s),
\* and run returns "done".
C2_DoneOnlyAfterCommandEnds ==
  /\ (gh.done /\ gh.nFallback = 0 /\ fr.command = CmdSleep /\ ~gh.typedAhead)
       => /\ ~gh.doneBusy
          /\ gh.doneElapsed >= Dur(CmdSleep) + MIN_STABLE_TIME
  /\ (MarkerSuccess /\ fr.command = CmdSleep /\ fr.timeout = 40)
       => ret.stdout = << <<"done">> >>

\* C3 as stated: a TIMEOUT of the detector in the marker strategy never
\* makes the executor leave the strategy (the fallback is not entered
\* because of it, the command is not sent again).
C3_TimeoutStaysInMarkerStrategy ==
  gh.fbReason # "timeout"

\* C4 as stated: one run never waits a second full timeout: at most one
\* detector wait of the run ends in TIMEOUT, and its ticks number at most
\* timeout/interval plus the ticks of one stabilization window.
C4_NoSecondFullTimeout ==
  /\ gh.nTimeouts <= 1
  /\ gh.nTicks <= (max_wait \div CHECK_INTERVAL)
                    + (MIN_STABLE_TIME \div CHECK_INTERVAL) + 1

\* C5 as stated: when the fallback extractor has returned, the history
\* limit of the session is what it was before the fallback was entered.
C5_HistoryLimitRestored ==
  (pc = "returned" /\ gh.nFallback > 0 /\ NoFailure)
    => history_limit = gh.histPre

C7_NoSessionNoTransport ==
  CalledWithoutSession => gh.nOps = 0 /\ pc # "returned"

\* C8 as stated: in every call made when the session no longer exists,
\* keystrokes are sent only after an existence check of that call.
C8_ExistenceCheckedEveryCall ==
  (CalledWithoutSession /\ gh.nSend > 0) => gh.nQuery > 0

\* C9 as stated: a blank command makes run return the empty result without
\* any interaction with tmux, the session query included.
C9_BlankCommandTouchesNothing ==
  (pc \in {"returned", "raised"} /\ gh.path # "none"
     /\ Strip(fr.command) = <<>>)
    => /\ gh.nQuery = 0 /\ gh.nOps = 0
       /\ gh.path = "empty"
       /\ ret = [kind |-> "value", stdout |-> NoText, stderr |-> NoText,
                 rc |-> 0]

\* C10 as stated: every result of run has an empty stderr and exit code 0.
C10_StderrEmptyExitZero ==
  (pc = "returned" /\ variant = "Local")
    => ret.stderr = NoText /\ ret.rc = 0

\* the final capture of the marker strategy did not hold both markers
MarkersMissing == gh.fbReason = "markers"

\* C11 as stated: whenever a marker cannot be located in the final capture,
\* the fallback extractor is invoked and run returns a non-empty text and
\* does not raise.
C11_MissingMarkersGiveText ==
  (pc \in {"returned", "raised"} /\ MarkersMissing)
    => gh.nFallback > 0 /\ ret.kind = "value" /\ ret.stdout # NoText

\* C12 as stated: a transport error inside the fallback extractor is not
\* propagated out of it; the fallback returns a text that holds the error
\* description, so the stdout of run is that non-empty text.
C12_FallbackErrorIsText ==
  (pc \in {"returned", "raised"} /\ gh.path = "error")
    => /\ ret.kind = "value"
       /\ ret.stdout = ErrorText(fr.exc)
       /\ ret.stdout # NoText

\* the lines of the pane that hold a marker token of an earlier call
StaleLines ==
  {i \in 1..Len(term.pane) : \E u \in gh.used : Contains(term.pane[i], u)}

Stable(H, k) ==
  /\ k > 1
  /\ H[k].c # NoCursor
  /\ H[k].c = H[k - 1].c
  /\ hash(H[k].text) = hash(H[k - 1].text)

\* the number of consecutive stable ticks that end at tick k
RECURSIVE StableUpTo(_, _)
StableUpTo(H, k) ==
  IF k > 1 /\ Stable(H, k) THEN 1 + StableUpTo(H, k - 1) ELSE 0

\* the number of most recent consecutive stable ticks
StableRun(H) == StableUpTo(H, Len(H))

\* the prompt matcher on the last non-blank line of a snapshot
PromptMatch(text) ==
  \E i \in 1..Len(text) :
    /\ ~IsBlank(text[i])
    /\ \A j \in (i + 1)..Len(text) : IsBlank(text[j])
    /\ has_prompt_at_end(<<text[i]>>)

\* the conditions of DONE at the last tick of H
DoneAt(H) ==
  /\ H # <<>>
  /\ Stable(H, Len(H))
  /\ StableRun(H) * CHECK_INTERVAL >= MIN_STABLE_TIME
  /\ PromptMatch(H[Len(H)].text)

\* C14: the detector reports DONE at a tick if and only if the tick is
\* stable, the consecutive stable ticks times the interval reach the
\* stabilization window, and the last non-blank line matches the prompt
\* matcher; DONE therefore needs four consecutive identical snapshots.
C14_DoneIffStablePrompt ==
  /\ gh.snaps # <<>> => (DoneAt(gh.snaps) <=> gh.outcome = "DONE")
  /\ gh.outcome = "DONE" =>
       /\ Len(gh.snaps) >= 4
       /\ \A k \in (Len(gh.snaps) - 2)..Len(gh.snaps) :
            gh.snaps[k] = gh.snaps[k - 1]

\* DONE on a stable screen whose last line is the echoed command line,
\* while the command is still running
C14_Witness ==
  /\ gh.outcome = "DONE"
  /\ pc = "m_end"
  /\ term.busy
  /\ Len(gh.snaps) = 4

\* C15: the stable count is the number of most recent consecutive ticks
\* equal to their predecessor with the cursor present; a tick with a changed
\* output, a moved cursor or an absent cursor resets it to 0, and DONE is
\* not reached on ticks without a cursor.
C15_StableCountTracksHistory ==
  /\ fr.stable_count = StableRun(gh.snaps)
  /\ (gh.snaps # <<>> /\ gh.snaps[Len(gh.snaps)].c = NoCursor) =>
       fr.stable_count = 0 /\ gh.outcome # "DONE"
  /\ gh.outcome = "DONE" =>
       \A k \in (Len(gh.snaps) - 3)..Len(gh.snaps) :
          gh.snaps[k].c # NoCursor

\* the cursor query failed on a tick after a stable tick: the count is back
\* to 0 and the loop goes on
C15_Witness ==
  /\ pc = "wait"
  /\ Len(gh.snaps) >= 3
  /\ gh.snaps[Len(gh.snaps)].c = NoCursor
  /\ gh.snaps[Len(gh.snaps)].text = gh.snaps[Len(gh.snaps) - 1].text
  /\ Stable(gh.snaps, Len(gh.snaps) - 1)
  /\ fr.stable_count = 0

\* the outcomes of the detector: none while it runs
DetectorRules(outcomes) ==
  /\ gh.outcome \in outcomes
  /\ pc = "wait" => gh.outcome = "none"
  /\ gh.outcome = "TIMEOUT" =>
       /\ fr.elapsed >= fr.timeout
       /\ ~DoneAt(gh.snaps)
  /\ gh.outcome = "DONE" =>
       (Len(gh.snaps) - 1) * CHECK_INTERVAL < fr.timeout
  /\ gh.outcome # "DONE" => fr.elapsed = Len(gh.snaps) * CHECK_INTERVAL
  /\ Len(gh.snaps) * CHECK_INTERVAL < fr.timeout + CHECK_INTERVAL
  /\ (fr.timeout = 0 /\ gh.outcome # "none") =>
       gh.outcome = "TIMEOUT" /\ gh.snaps = <<>>

\* C16 as stated: every invocation of the detector ends in DONE or in
\* TIMEOUT and in nothing else; TIMEOUT exactly when the elapsed time has
\* reached the timeout before DONE; no tick after the outcome; a timeout of
\* 0 gives TIMEOUT without a snapshot.
C16_DoneOrTimeoutOnly == DetectorRules({"none", "DONE", "TIMEOUT"})

\* C16 amended: an invocation ends in DONE, in TIMEOUT, or, when a capture
\* of the pane fails, in the transport error of that capture; the ticks
\* number at most timeout/interval rounded up; TIMEOUT exactly when the
\* elapsed time has reached the timeout before DONE; no tick after the
\* outcome; a timeout of 0 gives TIMEOUT without a snapshot.
C16_DoneTimeoutOrError ==
  /\ DetectorRules({"none", "DONE", "TIMEOUT", "error"})
  /\ gh.outcome = "error" => pc # "wait" /\ fr.elapsed < fr.timeout

\* the capture of a tick failed after the detector had taken snapshots
C16_Witness ==
  /\ gh.outcome = "error"
  /\ Len(gh.snaps) > 0
  /\ fr.exc = MsgCapture

\* the order of the transport operations of the marker strategy
MarkerOrder == <<"start", "command", "poll", "detector", "end", "capture">>

\* the same when the detector returns without a tick
MarkerOrderNoPoll == <<"start", "command", "detector", "end", "capture">>

IsPrefix(a, b) == Len(a) <= Len(b) /\ SubSeq(b, 1, Len(a)) = a

\* C17: the transport operations of the marker strategy occur in the order
\* start-marker echo, command, detector polls, end-marker echo, final
\* capture, each send once; the end marker is sent after the detector has
\* returned and the final capture is taken after the end marker was sent.
C17_MarkerStrategyOrder ==
  /\ IsPrefix(gh.trace, MarkerOrder) \/ IsPrefix(gh.trace, MarkerOrderNoPoll)
  /\ \A i \in 1..Len(gh.trace) :
       /\ gh.trace[i] = "end" =>
            \E j \in 1..(i - 1) : gh.trace[j] = "detector"
       /\ gh.trace[i] = "capture" =>
            \E j \in 1..(i - 1) : gh.trace[j] = "end"

\* a run of the marker strategy to its end, with polls
C17_Witness ==
  /\ pc = "returned"
  /\ gh.path = "marker"
  /\ gh.trace = MarkerOrder

\* ------------------------------------------- the slice of the final capture
Min(S) == CHOOSE i \in S : \A j \in S : i <= j
Max(S) == CHOOSE i \in S : \A j \in S : j <= i

\* the lines of the final capture that hold the start marker
StartLines == {i \in 1..Len(gh.final) : Contains(gh.final[i], fr.start_marker)}

\* the lines that hold the end marker after the first start line
EndLinesAfterFirst ==
  {j \in 1..Len(gh.final) :
     Contains(gh.final[j], fr.end_marker) /\ Min(StartLines) < j}

\* the lines that hold the end marker and not the start marker, after some
\* start line
EndLines ==
  {j \in 1..Len(gh.final) :
     /\ Contains(gh.final[j], fr.end_marker)
     /\ ~Contains(gh.final[j], fr.start_marker)
     /\ \E i \in StartLines : i < j}

\* the text run returns for the lines strictly between a and b
SliceText(a, b) ==
  StripText(SelectSeq(SubSeq(gh.final, a + 1, b - 1),
                      LAMBDA line : ~EchoOf(line, fr.command)))

\* what run does with a final capture whose markers are found or not
Located(found, text) ==
  gh.captured =>
    IF found
    THEN pc = "returned" /\ gh.path = "marker" /\ ret.stdout = text
    ELSE gh.path # "marker" /\ MarkersMissing

\* C18 as stated: the slice starts strictly after the first line that holds
\* the start marker and ends strictly before the first line after it that
\* holds the end marker; if a marker is missing the fallback is entered.
C18_SliceAfterFirstStartLine ==
  LET found == StartLines # {} /\ EndLinesAfterFirst # {}
  IN Located(found, SliceText(Min(StartLines), Min(EndLinesAfterFirst)))

\* C18 amended: the slice ends strictly before the first line that holds
\* the end marker (and not the start marker) after a line that holds the
\* start marker, and starts strictly after the last line before it that
\* holds the start marker; if there is no such pair the fallback is
\* entered.
C18_SliceAfterLastStartLine ==
  LET found == EndLines # {}
      e == Min(EndLines)
  IN Located(found,
             SliceText(Max({i \in StartLines : i < e}), e))

\* the marker strategy returned on a capture where the start marker is on
\* two lines: the typed echo line and the line echo printed
C18_Witness ==
  /\ pc = "returned" /\ gh.path = "marker"
  /\ gh.captured
  /\ Cardinality(StartLines) = 2
  /\ Min(StartLines) + 1 = Max(StartLines)

\* the lines of the final capture strictly between the marker lines the
\* code located
Between ==
  LET idx == find_markers(gh.final, 1, 0, fr.start_marker, fr.end_marker)
  IN SubSeq(gh.final, idx[1] + 1, idx[2] - 1)

C20_FallbackAtMostOnce ==
  /\ gh.nFallback <= 1
  /\ gh.nCmdSend <= 2
  /\ Len(SelectSeq(gh.trace, LAMBDA op : op = "start")) <= 1

\* ------------------------------------------------ the history limit
\* control is inside run_simple_fallback, after its first set-option
InFallback ==
  \/ pc \in {"f_marker", "f_cmd", "f_end", "f_capture", "f_except"}
  \/ pc = "wait" /\ fr.ctx = "f"

\* C21: every invocation of the fallback issues the restore of the history
\* limit after the widening and before control leaves the fallback, on the
\* normal return, on markers not found and on a failure of a send, of the
\* detector's capture or of the final capture; a restore that tmux
\* performed leaves the limit at the reset value.
C21_RestoreOnEveryExit ==
  /\ gh.nRestore <= gh.nWiden
  /\ gh.nWiden = gh.nFallback - (IF pc = "f_clear" THEN 1 ELSE 0)
  /\ InFallback => gh.nWiden = gh.nRestore + 1
  /\ ~InFallback => gh.nWiden = gh.nRestore
  /\ (~InFallback /\ gh.nRestore > 0 /\ gh.restoreOk) =>
        history_limit = HISTORY_RESET

\* the fallback widened the limit, the capture of its detector failed, and
\* the except clause restored the limit before the result went to the caller
C21_Witness ==
  /\ pc = "returned"
  /\ gh.path = "error"
  /\ fr.exc = MsgCapture
  /\ gh.nWiden = 1 /\ gh.nRestore = 1
  /\ gh.snaps # <<>>
  /\ history_limit = HISTORY_RESET

\* ------------------------------------------------- one command in flight
\* C27: within one run the command is sent a second time only after the
\* detector reported DONE for the first send, and never while the first
\* instance of the command is still running.
C27_ResendOnlyAfterDone ==
  gh.nCmdSend >= 2 => gh.resendAfter = "DONE" /\ ~gh.resendRunning

\* ------------------------------------------------- the prompt matcher
\* the last non-blank line of a text, trimmed; <<>> when every line is blank
RECURSIVE LastNonBlank(_)
LastNonBlank(text) ==
  IF text = <<>> THEN <<>>
  ELSE IF IsBlank(text[Len(text)])
       THEN LastNonBlank(SubSeq(text, 1, Len(text) - 1))
  ELSE Strip(text[Len(text)])

\* the number of characters of a line
RECURSIVE Chars(_)
Chars(line) ==
  IF line = <<>> THEN 0
  ELSE (CASE Head(line) = "LONG100" -> 100
          [] Head(line) = "W97" -> 97
          [] OTHER -> 1) + Chars(Tail(line))

\* the words that hold a keyword in some case
KeywordWords ==
  {"error", "warning", "failed", "success", "completed", "finished",
   "ERROR", "Failed", "unfinished"}

\* the line ends in "$", "#" or ">"
FixedPattern(line) == line # <<>> /\ line[Len(line)] \in {"$", "#", ">"}

\* the line is short, has one of `$ # > :` and no keyword
ShortPromptLike(line) ==
  /\ Chars(line) < 100
  /\ \E i \in 1..Len(line) : line[i] \in {"$", "#", ">", ":"}
  /\ \A i \in 1..Len(line) : line[i] \notin KeywordWords

\* C25: the prompt matcher accepts a snapshot exactly when its last
\* non-blank line, trimmed, ends in "$", "#" or ">", or is shorter than 100
\* characters, contains one of `$ # > :` and contains no keyword in any
\* case; a snapshot of blank lines only is not accepted, and a line that
\* ends in a prompt character is accepted whatever keyword it holds.
C25_PromptMatcher ==
  pc = "matched" =>
    LET line == LastNonBlank(term.pane)
    IN /\ ret.kind = "True" <=>
            (line # <<>> /\ (FixedPattern(line) \/ ShortPromptLike(line)))
       /\ (\A i \in 1..Len(term.pane) : IsBlank(term.pane[i])) =>
            ret.kind = "False"
       /\ (line # <<>> /\ FixedPattern(line)) => ret.kind = "True"

\* a short line with a colon and a keyword in upper case is rejected, under
\* trailing blank lines
C25_Witness ==
  /\ pc = "matched"
  /\ Len(term.pane) = 3
  /\ term.pane[2] = <<"ERROR", ":", " ", "x">>
  /\ IsBlank(term.pane[3])
  /\ ret.kind = "False"

\* ------------------------------------------------ markers in the slice
\* the lines of a text that hold the token
LinesWith(text, tok) == {i \in 1..Len(text) : Contains(text[i], tok)}

\* C29: the text _extract_between_markers returns holds neither the start
\* marker nor the end marker of the call on any line, whatever the capture:
\* a marker on several lines, both markers on one line.
C29_NoMarkerInSlice ==
  pc = "sliced" =>
    /\ LinesWith(ret.stdout, fr.start_marker) = {}
    /\ LinesWith(ret.stdout, fr.end_marker) = {}

\* a slice taken from a capture with the start marker on two lines, one of
\* them holding the end marker too
C29_Witness ==
  /\ pc = "sliced"
  /\ Cardinality(LinesWith(term.pane, fr.start_marker)) = 2
  /\ LinesWith(term.pane, fr.start_marker)
       \cap LinesWith(term.pane, fr.end_marker) # {}
  /\ ret.stdout = << <<"hello">> >>

\* --------------------------------------------- the fallback's slicing
\* the first line with the end marker that follows a line with the clear
\* marker, and the last line with the clear marker before it
FbEndLine ==
  Min({j \in LinesWith(term.pane, fr.fb_end_marker)
           \ LinesWith(term.pane, fr.clear_marker) :
         \E i \in LinesWith(term.pane, fr.clear_marker) : i < j})

FbStartLine ==
  Max({i \in LinesWith(term.pane, fr.clear_marker) : i < FbEndLine})

FbBetween == SubSeq(term.pane, FbStartLine + 1, FbEndLine - 1)

\* C23: when the clear marker and after it the end marker are found, the
\* fallback returns the lines strictly between them, without the leading
\* line if and only if that line contains the command text, no later line
\* removed, joined and trimmed.
C23_FallbackSlice ==
  pc = "fb_sliced" =>
    ret.stdout =
      StripText(IF FbBetween # <<>> /\ Contains(FbBetween[1], fr.command)
                THEN Tail(FbBetween) ELSE FbBetween)

\* the line is prompt-like: a prompt character and one of `@ : ~`
PromptLikeLine(line) ==
  /\ \E i \in 1..Len(line) : line[i] \in {"$", "#", ">", "|_"}
  /\ \E i \in 1..Len(line) : line[i] \in {"@", ":", "~", "kali"}

\* the lines of a text before its first prompt-like line
RECURSIVE BeforePrompt(_)
BeforePrompt(text) ==
  IF text = <<>> \/ PromptLikeLine(Head(text)) THEN <<>>
  ELSE <<Head(text)>> \o BeforePrompt(Tail(text))

\* the lines with the command text and a prompt character
CommandLines ==
  {i \in LinesWith(term.pane, fr.command) :
     \E k \in 1..Len(term.pane[i]) : term.pane[i][k] \in {"$", "#", ">", "|_"}}

\* C24: without the markers, the fallback returns the lines after the last
\* line that holds the command text and a prompt character, up to and
\* excluding the next prompt-like line; without such a line it returns the
\* last 50 lines of the capture, the empty string for an empty capture.
C24_RecentOutputStopsAtPrompt ==
  pc = "fb_recent" =>
    ret.stdout =
      IF CommandLines # {}
      THEN StripText(BeforePrompt(SubSeq(term.pane, Max(CommandLines) + 1,
                                         Len(term.pane))))
      ELSE StripText(LastLines(term.pane, RECENT_LINES))

\* ------------------------------------------------------ run_with_timeout
\* C28: every wait of the detector inside run_with_timeout(command, t) runs
\* with the timeout t, and when run_with_timeout has returned or raised,
\* max_wait has the value it had before the call.
C28_TimeoutScopedToCall ==
  /\ (fr.in_timeout /\ (pc = "wait" \/ gh.outcome # "none")) =>
        fr.timeout = fr.timeout_arg
  /\ (fr.in_timeout /\ pc \notin {"idle", "rwt_returned", "rwt_raised"}) =>
        max_wait = fr.timeout_arg
  /\ pc \in {"rwt_returned", "rwt_raised"} => max_wait = gh.maxWaitPre

\* run_with_timeout returned after the marker strategy and the fallback had
\* each waited with a timeout different from max_wait
C28_Witness ==
  /\ pc = "rwt_returned"
  /\ gh.path = "fallback"
  /\ gh.nCmdSend = 2
  /\ gh.nTicks > 4
  /\ fr.timeout_arg = 20
  /\ max_wait = 40

\* the sends of the marker strategy, in their order
\* C22: no step of run sends an interrupt keystroke, also after TIMEOUT:
\* the pane receives one only in a call of interrupt_command by the caller,
\* which returns True when the keystroke was sent and False, without
\* raising, when the send failed
C22_InterruptOnlyByCaller ==
  [][/\ term'.sigint # term.sigint => pc = "idle" /\ pc' = "interrupted"
     /\ pc' = "interrupted" =>
          /\ ret'.kind \in {"True", "False"}
          /\ ret'.kind = "True" <=> term'.sigint = term.sigint + 1
          /\ ret'.kind = "False" <=> term' = term]_vars

\* the caller interrupts the line that a call of run left running
C22_Witness ==
  /\ pc = "interrupted"
  /\ ret.kind = "True"
  /\ runs = 1
  /\ gh.intRunning
  /\ term.sigint = 1
  /\ ~term.busy

\* the marker tokens a call holds
MarkersOf(f) ==
  {f.start_marker, f.end_marker, f.clear_marker, f.fb_end_marker} \ {<<>>}

InCall(p) == p \notin {"none", "idle", "rwt_returned", "rwt_raised"}

\* the detector of the call runs with the timeout of the call
OwnTimeout(p, f, g) ==
  (f.in_timeout /\ (p = "wait" \/ (InCall(p) /\ g.outcome # "none")))
    => f.timeout = f.timeout_arg

\* C26: two calls of run_with_timeout that overlap on one controller share
\* no state: their markers differ, the detector of each runs with the
\* timeout of its own call, and when both have returned max_wait has the
\* value it had before them
C26_OverlappingCallsShareNothing ==
  /\ MarkersOf(fr) \cap MarkersOf(parked.fr) = {}
  /\ OwnTimeout(pc, fr, gh)
  /\ OwnTimeout(parked.pc, parked.fr, parked.gh)
  /\ (/\ pc \in {"rwt_returned", "rwt_raised"}
      /\ parked.pc \in {"rwt_returned", "rwt_raised"})
       => max_wait = gh.maxWaitPre

Sends(trace) ==
  SelectSeq(trace, LAMBDA op : op \in {"start", "command", "end"})

\* C30: a call that returns the slice of the marker strategy has sent exactly
\* three lines, the start-marker echo, the command and the end-marker echo,
\* has sent no `clear`, has generated no fallback marker and has left the
\* history limit of the session as it was.
C30_MarkerSuccessFrame ==
  (pc = "returned" /\ gh.path = "marker") =>
     /\ gh.nSend = 3
     /\ gh.nCmdSend = 1
     /\ Sends(gh.trace) = <<"start", "command", "end">>
     /\ gh.nFallback = 0
     /\ gh.nWiden = 0 /\ gh.nRestore = 0
     /\ gh.made = <<fr.start_marker, fr.end_marker>>
     /\ history_limit = gh.histPre

\* the marker strategy succeeded after DONE on a session whose history
\* limit is not the value the fallback resets it to
C30_Witness ==
  /\ pc = "returned" /\ gh.path = "marker"
  /\ gh.outcome = "DONE"
  /\ gh.nOps = gh.nSend + 2 * gh.nTicks + 1
  /\ history_limit # HISTORY_RESET
  /\ ret.stdout # NoText

====
